---- MODULE Spec2Model ----
(***************************************************************************)
(* CachingProjectLoader (lib/api-helper/project/CachingProjectLoader.ts):  *)
(* doWithProject, cachedProjectIsValid, saveAndRunAction, cleanUp, the     *)
(* eviction callback and the shutdown hook, as a state machine whose steps *)
(* are the pieces of code that run between two awaits.                     *)
(***************************************************************************)
EXTENDS Integers, Sequences, FiniteSets, TLC

\* ------------------------------------------------------------------ bounds

\* Number of doWithProject calls issued in a run (each materializes at most once).
MaxReq == 3
\* Number of calls issued in a run whose callers pass any parameters (Spec).
MaxMixed == 2
\* Largest maxEntries the loader is constructed with.
MaxCapacity == 2
\* Number of calls in progress at the same time.
MaxInFlight == 2

Req == 1..MaxReq
\* A checkout directory is named by the call whose save() produced it.
Dir == Req

\* ------------------------------------------------------------------ inputs

RECURSIVE Rep(_, _)
Rep(c, n) == IF n = 0 THEN << >> ELSE <<c>> \o Rep(c, n - 1)

ShaLen == 40
HexDigits == {"0", "1", "2", "3", "4", "5", "6", "7", "8", "9",
              "a", "b", "c", "d", "e", "f"}

\* sha({ exact: true }).test(s): the whole string is ShaLen hexadecimal digits.
IsExactSha(s) == Len(s) = ShaLen /\ \A i \in 1..Len(s) : s[i] \in HexDigits

ShaA == Rep("a", ShaLen)
ShaB == Rep("b", ShaLen)
ShortSha == Rep("a", 7)
Branch == <<"m", "a", "i", "n">>

MkParams(repo, rev, ro, opts, lc) ==
    [id |-> [repo |-> repo, sha |-> rev], readOnly |-> ro,
     cloneOptions |-> opts, lifecycle |-> lc]

Shallow == [depth |-> 1]
Deep == [depth |-> 50]

\* The ProjectLoadingParameters the callers of the model pass.
ParamChoices ==
    { MkParams("r1", ShaA, TRUE, Shallow, FALSE),
      MkParams("r1", ShaA, TRUE, Deep, FALSE),
      MkParams("r2", ShaA, TRUE, Shallow, TRUE),
      MkParams("r1", ShaB, TRUE, Shallow, FALSE),
      MkParams("r1", ShaA, FALSE, Shallow, FALSE),
      MkParams("r1", Branch, TRUE, Shallow, TRUE),
      MkParams("r1", ShortSha, TRUE, Shallow, FALSE) }

NoParams == [id |-> [repo |-> "", sha |-> << >>], readOnly |-> FALSE,
             cloneOptions |-> [depth |-> 0], lifecycle |-> FALSE]

Reasons == {"timeout", "disposal", "eviction", "shutdown"}

VARIABLES
    maxEntries,    \* constructor argument maxEntries
    req,           \* the doWithProject calls: position and locals
    cache,         \* LruCache.values, in insertion (recency) order
    disk,          \* disk[d]: directory d exists on storage
    deleteOnExit,  \* CachingProjectLoader.deleteOnExit
    timers,        \* directories with a pending setTimeout callback
    disposables,   \* directories with a registered, not yet invoked, disposal
    clean,         \* clean[d][reason]: position of cleanUp(d, reason)
    shutdown,      \* position of the shutdown hook
    removals,      \* removals[d]: reasons of the cleanUp runs that called fs.remove(d)
    returned,      \* the latest completion of a doWithProject call
    atShutdown,    \* the directories on storage when the shutdown hook started
    lastUse        \* the keys of the store, in the order of their last get or put

vars == <<maxEntries, req, cache, disk, deleteOnExit, timers, disposables,
          clean, shutdown, removals, returned, atShutdown, lastUse>>

\* ------------------------------------------------------------ Content Key

\* cacheKeyForSha(params.id): a value determined by the repository identity
\* and the commit hash, and by nothing else.
cacheKeyForSha(id) == <<id.repo, id.sha>>

\* ------------------------------------------------------------ Cache Store

NoEntry == [baseDir |-> 0, id |-> NoParams.id, readOnly |-> FALSE,
            cloneOptions |-> NoParams.cloneOptions]

LruHas(c, k) == \E i \in 1..Len(c) : c[i].key = k
LruIndex(c, k) == CHOOSE i \in 1..Len(c) : c[i].key = k
LruWithout(c, k) == SelectSeq(c, LAMBDA e : e.key # k)

\* get(key): the value, or nothing; a found entry becomes the most recently used.
LruValue(c, k) == IF LruHas(c, k) THEN c[LruIndex(c, k)].value ELSE NoEntry
LruGet(c, k) == IF LruHas(c, k) THEN Append(LruWithout(c, k), c[LruIndex(c, k)]) ELSE c

\* evict(key): the eviction callback runs on the value, the key is deleted;
\* evicting an absent key is a no-op.
LruEvicted(c, k) == IF LruHas(c, k) THEN {c[LruIndex(c, k)].value.baseDir} ELSE {}
LruEvict(c, k) == LruWithout(c, k)

\* put(key, value): when the insertion would exceed the capacity the least
\* recently used entry is evicted first; a key already present is given the
\* new value, and the put is its last access.
LruPutVictims(c, max, k) ==
    IF ~LruHas(c, k) /\ Len(c) >= max THEN {c[1].key} ELSE {}
LruPutEvicted(c, max, k) == UNION {LruEvicted(c, v) : v \in LruPutVictims(c, max, k)}
LruPut(c, max, k, v) ==
    LET kept == SelectSeq(c, LAMBDA e : e.key \notin LruPutVictims(c, max, k))
    IN Append(LruWithout(kept, k), [key |-> k, value |-> v])

CacheDirs(c) == {c[i].value.baseDir : i \in 1..Len(c)}

\* ------------------------------------------------------------ Orchestrator

\* Variant: the constructor's maxEntries does not reach the store.
CapacityNotPassed(n) == MaxReq + 1

\* constructor, line 142: new LruCache(maxEntries, ...).
Capacity(n) == n

\* Variant: the test of line 46 is left out.
IsCacheableAnyIntent(params) == IsExactSha(params.id.sha)

\* Variant: the test of line 51 is left out.
IsCacheableReadOnlyOnly(params) == params.readOnly

\* doWithProject, lines 46-54: read-only and an exact commit hash, else a
\* fresh clone is forced.
IsCacheable(params) == params.readOnly /\ IsExactSha(params.id.sha)

\* Variant: the key is computed from the commit hash alone.
KeyOfShaOnly(params) == cacheKeyForSha([repo |-> "", sha |-> params.id.sha])

\* doWithProject, line 57.
KeyOf(params) == cacheKeyForSha(params.id)

\* doWithProject, line 73: {...project, ...params}.
CacheEntryOf(d, params) ==
    [baseDir |-> d, id |-> params.id, readOnly |-> params.readOnly,
     cloneOptions |-> params.cloneOptions]

\* Variant: the clone options are not compared.
OptionsIgnored(project, params) == TRUE

\* cachedProjectIsValid, line 81: _.isEqual on the clone options.
OptionsMatch(project, params) == project.cloneOptions = params.cloneOptions

\* Variant: the outcome of fs.access is taken the wrong way round.
cachedProjectIsValidInverted(project, params, accessible) ==
    IF ~OptionsMatch(project, params) THEN FALSE ELSE ~accessible

\* cachedProjectIsValid: accessible is the outcome of fs.access(baseDir).
cachedProjectIsValid(project, params, accessible) ==
    IF ~OptionsMatch(project, params) THEN FALSE ELSE accessible

\* Variant: the outcome of the validity check is not looked at.
ServesEntryUnchecked(valid) == TRUE

\* doWithProject, line 61: the entry is served when the awaited
\* cachedProjectIsValid returned true.
ServesEntry(valid) == valid

\* Variant: an action that fails has its entry evicted.
CacheAfterActionEvictsOnError(c, key, err) == IF err THEN LruEvict(c, key) ELSE c

\* doWithProject, line 77: return action(project); the outcome of the action
\* is the outcome of the call and the store is not touched.
CacheAfterAction(c, key, err) == c

\* Variant: the invalid entry is left in the store.
EvictInvalidKept(c, key) == c

\* doWithProject, line 65: this.cache.evict(key) on an invalid entry.
EvictInvalid(c, key) == LruEvict(c, key)

\* ------------------------------------------------------- Lifecycle Coordinator

\* Variant: the cacheable path goes through saveAndRunAction as well.
RegistersAlways(cacheable) == TRUE

\* The path that hands its fresh checkout to the Lifecycle Coordinator:
\* saveAndRunAction (lines 48 and 53), not the cacheable path (line 71).
RegistersCheckout(cacheable) == ~cacheable

\* Variant: the timer is scheduled whether there is a lifecycle handle or not.
TimersAfterSaveAlways(ts, params, d) == ts \cup {d}

\* Variant: no timer is scheduled.
TimersAfterSaveNever(ts, params, d) == ts

\* saveAndRunAction, lines 104-111.
HasLifecycle(params) == params.lifecycle
DisposablesAfterSave(ds, params, d) == IF HasLifecycle(params) THEN ds \cup {d} ELSE ds
TimersAfterSave(ts, params, d) == IF HasLifecycle(params) THEN ts ELSE ts \cup {d}
DeleteOnExitAfterSave(doe, params, d) ==
    IF HasLifecycle(params) THEN doe ELSE Append(doe, d)

\* Variant: fs.remove is called whether the path exists or not.
CleanUpProceedsUnchecked(dir, exists) == TRUE

\* cleanUp, line 121: the guard of the removal.
CleanUpProceeds(dir, exists) == dir # 0 /\ exists

\* cleanUp, lines 129-132: Array.prototype.slice returns a copy of a part of
\* the array and leaves the array as it is.
Slice(a, from, to) == [i \in 1..(IF to > from THEN to - from ELSE 0) |-> a[from + i]]
IndexOf(a, x) == IF \E i \in 1..Len(a) : a[i] = x
                 THEN (CHOOSE i \in 1..Len(a) : a[i] = x /\ \A j \in 1..(i - 1) : a[j] # x) - 1
                 ELSE -1
DeleteOnExitAfterRemove(doe, dir) ==
    LET ix == IndexOf(doe, dir)
        copy == IF ix >= 0 THEN Slice(doe, ix, 1) ELSE << >>
    IN doe

\* Variant: a cleanUp whose fs.remove failed calls it again.
AfterRemoveRetry(ok) == IF ok THEN "done" ELSE "remove"

\* cleanUp, lines 127-135: after fs.remove, or after the catch that logs its
\* error, the cleanUp returns.
AfterRemove(ok) == "done"

\* The cleanUp runs of one reason that the program starts for a set of paths:
\* cleanUp runs up to its first await, fs.pathExists.
StartCleanUp(cl, dirs, reason) ==
    [d \in Dir |-> IF d \in dirs THEN [cl[d] EXCEPT ![reason] = "exists"] ELSE cl[d]]

\* Variant: the store is constructed without the callback.
EvictionCallbackMissing(cl, dirs) == cl

\* constructor, line 142: the eviction callback.
EvictionCallback(cl, dirs) == StartCleanUp(cl, dirs, "eviction")

\* Variant: the shutdown hook reclaims the cached projects too.
ShutdownPathsWithCache(doe, c) == {doe[i] : i \in 1..Len(doe)} \cup CacheDirs(c)

\* constructor, line 148: the paths the shutdown hook reclaims.
ShutdownPaths(doe, c) == {doe[i] : i \in 1..Len(doe)}

\* ------------------------------------------------------------------ state

IdleReq == [pc |-> "idle", params |-> NoParams, cacheable |-> FALSE,
            project |-> NoEntry, accessed |-> "no", valid |-> FALSE, dir |-> 0,
            fresh |-> FALSE,
            sawDir |-> FALSE, cacheOps |-> 0]

NoReturn == [req |-> 0, outcome |-> "none", params |-> NoParams, dir |-> 0]

Init ==
    /\ maxEntries \in 1..MaxCapacity
    /\ req = [r \in Req |-> IdleReq]
    /\ cache = << >>
    /\ disk = [d \in Dir |-> "none"]
    /\ deleteOnExit = << >>
    /\ timers = {}
    /\ disposables = {}
    /\ clean = [d \in Dir |-> [x \in Reasons |-> "none"]]
    /\ shutdown = "no"
    /\ removals = [d \in Dir |-> {}]
    /\ returned = NoReturn
    /\ atShutdown = {}
    /\ lastUse = << >>

Running == shutdown # "done"

\* Variant: a save() that failed is awaited again.
AfterSaveRejectsRetry(rec) == rec

\* doWithProject line 71 and saveAndRunAction line 103: the rejection of
\* await save(...) is the rejection of the call, and nothing of the call
\* runs after it.
AfterSaveRejects(rec) == [IdleReq EXCEPT !.pc = "done"]

\* The record of the calls the Orchestrator makes on the store: key k has just
\* been used (a get that found it, or a put); the keys the store still holds.
Used(u, k) == Append(SelectSeq(u, LAMBDA x : x # k), k)
StillStored(u, c) == SelectSeq(u, LAMBDA x : \E i \in 1..Len(c) : c[i].key = x)
Present(d) == d \in Dir /\ disk[d] = "present"
InFlight == {q \in Req : req[q].pc \in {"save", "access", "checked", "action"}}

\* ---------------------------------------------------------------- actions

\* doWithProject is called with params: lines 44-61, up to the first await.
\* Calls are issued in the order of their numbers.
Start(r, p) ==
    /\ Running
    /\ req[r].pc = "idle"
    /\ \A q \in Req : q < r => req[q].pc # "idle"
    /\ Cardinality(InFlight) < MaxInFlight
    /\ IF ~IsCacheable(p)
       THEN \* saveAndRunAction: await save(delegate, params)
            /\ req' = [req EXCEPT ![r] = [IdleReq EXCEPT !.pc = "save", !.params = p]]
            /\ cache' = cache
            /\ lastUse' = lastUse
       ELSE LET key == KeyOf(p)
                project == LruValue(cache, key)
            IN /\ cache' = LruGet(cache, key)
               /\ lastUse' = IF project # NoEntry THEN Used(lastUse, key) ELSE lastUse
               /\ req' = [req EXCEPT ![r] =
                    [IdleReq EXCEPT
                       !.params = p, !.cacheable = TRUE, !.project = project,
                       !.cacheOps = 1,
                       !.pc = IF project = NoEntry THEN "save"
                              ELSE IF OptionsMatch(project, p) THEN "access"
                              ELSE "checked"]]
    /\ UNCHANGED <<maxEntries, disk, deleteOnExit, timers, disposables, clean,
                   shutdown, removals, returned, atShutdown>>

\* cachedProjectIsValid, lines 85-89: fs.access looks at the storage.
Access(r) ==
    /\ Running
    /\ req[r].pc = "access"
    /\ LET accessible == Present(req[r].project.baseDir)
       IN req' = [req EXCEPT
                    ![r].pc = "checked",
                    ![r].accessed = IF accessible THEN "found" ELSE "missing",
                    ![r].valid = cachedProjectIsValid(req[r].project, req[r].params,
                                                      accessible)]
    /\ UNCHANGED <<maxEntries, cache, disk, deleteOnExit, timers, disposables,
                   clean, shutdown, removals, returned, atShutdown, lastUse>>

\* doWithProject resumes after the validity check, lines 61-70: a valid
\* project goes to the action (line 77), an invalid one is evicted and
\* save() is awaited.
Resume(r) ==
    /\ Running
    /\ req[r].pc = "checked"
    /\ IF ServesEntry(req[r].valid)
       THEN /\ req' = [req EXCEPT ![r].pc = "action",
                                  ![r].dir = req[r].project.baseDir,
                                  ![r].sawDir = Present(req[r].project.baseDir)]
            /\ UNCHANGED <<cache, clean, lastUse>>
       ELSE LET key == KeyOf(req[r].params)
            IN /\ clean' = EvictionCallback(clean, LruEvicted(cache, key))
               /\ cache' = EvictInvalid(cache, key)
               /\ lastUse' = StillStored(lastUse, cache')
               /\ req' = [req EXCEPT ![r].pc = "save", ![r].project = NoEntry,
                                     ![r].cacheOps = req[r].cacheOps + 1]
    /\ UNCHANGED <<maxEntries, disk, deleteOnExit, timers, disposables,
                   shutdown, removals, returned, atShutdown>>

\* save() fails: the delegate's error is the caller's.
SaveFails(r) ==
    /\ Running
    /\ req[r].pc = "save"
    /\ req' = [req EXCEPT ![r] = AfterSaveRejects(req[r])]
    /\ returned' = [req |-> r, outcome |-> "saveError",
                    params |-> req[r].params, dir |-> 0]
    /\ UNCHANGED <<maxEntries, cache, disk, deleteOnExit, timers, disposables,
                   clean, shutdown, removals, atShutdown, lastUse>>

\* save() delivers a fresh checkout in directory r.  On the cacheable path
\* lines 72-77 follow: put, then the action.  On the other path lines 104-112
\* follow: the disposal or the timer and the deleteOnExit entry, then the
\* action.
SaveDone(r) ==
    /\ Running
    /\ req[r].pc = "save"
    /\ disk' = [disk EXCEPT ![r] = "present"]
    /\ LET p == req[r].params
       IN /\ IF req[r].cacheable
             THEN /\ clean' = EvictionCallback(clean,
                                  LruPutEvicted(cache, Capacity(maxEntries), KeyOf(p)))
                  /\ cache' = LruPut(cache, Capacity(maxEntries), KeyOf(p),
                                          CacheEntryOf(r, p))
                  /\ lastUse' = StillStored(Used(lastUse, KeyOf(p)), cache')
                  /\ req' = [req EXCEPT ![r].pc = "action", ![r].dir = r,
                                        ![r].fresh = TRUE, ![r].sawDir = TRUE,
                                        ![r].cacheOps = req[r].cacheOps + 1]
             ELSE /\ req' = [req EXCEPT ![r].pc = "action", ![r].dir = r,
                                        ![r].fresh = TRUE, ![r].sawDir = TRUE]
                  /\ UNCHANGED <<cache, clean, lastUse>>
          /\ IF RegistersCheckout(req[r].cacheable)
             THEN /\ disposables' = DisposablesAfterSave(disposables, p, r)
                  /\ timers' = TimersAfterSave(timers, p, r)
                  /\ deleteOnExit' = DeleteOnExitAfterSave(deleteOnExit, p, r)
             ELSE UNCHANGED <<deleteOnExit, timers, disposables>>
    /\ UNCHANGED <<maxEntries, shutdown, removals, returned, atShutdown>>

\* The caller's action completes, with a result or with an error.
ActionDone(r, err) ==
    /\ Running
    /\ req[r].pc = "action"
    /\ req' = [req EXCEPT ![r] = [IdleReq EXCEPT !.pc = "done"]]
    /\ returned' = [req |-> r, outcome |-> IF err THEN "actionError" ELSE "result",
                    params |-> req[r].params, dir |-> req[r].dir]
    /\ cache' = IF req[r].cacheable
                THEN CacheAfterAction(cache, KeyOf(req[r].params), err)
                ELSE cache
    /\ UNCHANGED <<maxEntries, disk, deleteOnExit, timers, disposables,
                   clean, shutdown, removals, atShutdown, lastUse>>

\* The setTimeout callback of line 108 runs.
TimerFires(d) ==
    /\ Running
    /\ d \in timers
    /\ timers' = timers \ {d}
    /\ clean' = StartCleanUp(clean, {d}, "timeout")
    /\ UNCHANGED <<maxEntries, req, cache, disk, deleteOnExit, disposables,
                   shutdown, removals, returned, atShutdown, lastUse>>

\* The owner of the lifecycle handle invokes the disposal of line 105.
Dispose(d) ==
    /\ Running
    /\ d \in disposables
    /\ disposables' = disposables \ {d}
    /\ clean' = StartCleanUp(clean, {d}, "disposal")
    /\ UNCHANGED <<maxEntries, req, cache, disk, deleteOnExit, timers,
                   shutdown, removals, returned, atShutdown, lastUse>>

\* cleanUp, line 121: fs.pathExists has looked at the storage.
CleanExists(d, reason) ==
    /\ Running
    /\ clean[d][reason] = "exists"
    /\ clean' = [clean EXCEPT ![d][reason] =
                    IF CleanUpProceeds(d, Present(d)) THEN "remove" ELSE "done"]
    /\ UNCHANGED <<maxEntries, req, cache, disk, deleteOnExit, timers,
                   disposables, shutdown, removals, returned, atShutdown, lastUse>>

\* cleanUp, lines 127-135: fs.remove, then the deleteOnExit bookkeeping; an
\* error of fs.remove is logged.
CleanRemove(d, reason, ok) ==
    /\ Running
    /\ clean[d][reason] = "remove"
    /\ clean' = [clean EXCEPT ![d][reason] = AfterRemove(ok)]
    /\ removals' = [removals EXCEPT ![d] = @ \cup {reason}]
    /\ IF ok
       THEN /\ disk' = [disk EXCEPT ![d] = IF Present(d) THEN "removed" ELSE @]
            /\ deleteOnExit' = DeleteOnExitAfterRemove(deleteOnExit, d)
       ELSE UNCHANGED <<disk, deleteOnExit>>
    /\ UNCHANGED <<maxEntries, req, cache, timers, disposables, shutdown, returned, atShutdown, lastUse>>

\* The shutdown hook of lines 144-150 starts: a cleanUp for every path of
\* deleteOnExit.
ShutdownStarts ==
    /\ shutdown = "no"
    /\ shutdown' = "running"
    /\ atShutdown' = {d \in Dir : Present(d)}
    /\ clean' = StartCleanUp(clean, ShutdownPaths(deleteOnExit, cache), "shutdown")
    /\ UNCHANGED <<maxEntries, req, cache, disk, deleteOnExit, timers,
                   disposables, removals, returned, lastUse>>

\* Promise.all of line 148 settles; the process exits and nothing runs after it.
ShutdownDone ==
    /\ shutdown = "running"
    /\ \A d \in Dir : clean[d]["shutdown"] \in {"none", "done"}
    /\ shutdown' = "done"
    /\ UNCHANGED <<maxEntries, req, cache, disk, deleteOnExit, timers,
                   disposables, clean, removals, returned, atShutdown, lastUse>>

\* Something other than this program removes the directory of a cached
\* checkout (the case cachedProjectIsValid is written for).
OutOfBand(d) ==
    /\ Running
    /\ Present(d)
    /\ d \in CacheDirs(cache)
    /\ disk' = [disk EXCEPT ![d] = "lost"]
    /\ UNCHANGED <<maxEntries, req, cache, deleteOnExit, timers, disposables,
                   clean, shutdown, removals, returned, atShutdown, lastUse>>

\* What goes on once calls have been issued.
Background ==
    \/ \E r \in Req : Access(r)
    \/ \E r \in Req : Resume(r)
    \/ \E r \in Req : SaveFails(r)
    \/ \E r \in Req : SaveDone(r)
    \/ \E r \in Req, err \in BOOLEAN : ActionDone(r, err)
    \/ \E d \in Dir, reason \in Reasons : CleanExists(d, reason)
    \/ \E d \in Dir, reason \in Reasons, ok \in BOOLEAN : CleanRemove(d, reason, ok)

\* The reclamation triggers of the checkouts that are not cached.
Lifecycle ==
    \/ \E d \in Dir : TimerFires(d)
    \/ \E d \in Dir : Dispose(d)
    \/ ShutdownStarts
    \/ ShutdownDone

CacheChoices == {p \in ParamChoices : IsCacheable(p)}

\* Callers pass any parameters.
Next ==
    \/ \E r \in 1..MaxMixed, p \in ParamChoices : Start(r, p)
    \/ Background
    \/ Lifecycle
    \/ \E d \in Dir : OutOfBand(d)

Spec == Init /\ [][Next]_vars

\* The event loop runs a timer that is due and the continuation of an await
\* that has settled, as long as the process has not exited; whether an
\* fs.remove succeeds is the storage's choice.
Fairness ==
    \A d \in Dir :
        /\ WF_vars(TimerFires(d))
        /\ \A x \in Reasons : /\ WF_vars(CleanExists(d, x))
                               /\ WF_vars(CleanRemove(d, x, TRUE))

SpecFair == Spec /\ Fairness

\* Callers pass read-only requests for exact commit hashes.
NextCache ==
    \/ \E r \in Req, p \in CacheChoices : Start(r, p)
    \/ Background
    \/ \E d \in Dir : OutOfBand(d)

SpecCache == Init /\ [][NextCache]_vars

\* Read-only requests for exact commit hashes, issued one after the other,
\* and nothing but this program touches the storage.
NextSeq ==
    \/ \E r \in Req, p \in CacheChoices : InFlight = {} /\ Start(r, p)
    \/ Background

SpecSeq == Init /\ [][NextSeq]_vars

\* ----------------------------------------------------------------- claims

RawCacheable(p) == p.readOnly /\ IsExactSha(p.id.sha)
Hit(r) == req[r].pc = "action" /\ ~req[r].fresh
Pending(d) == {reason \in Reasons : clean[d][reason] \in {"exists", "remove"}}
OnExit == {deleteOnExit[i] : i \in 1..Len(deleteOnExit)}

\* C1: every entry of the Cache Store was inserted by a read-only request for
\* an exact commit hash, and a call that is not read-only or whose revision
\* is not an exact commit hash has made no get, put or evict on the store.
C1_CacheOnlyReadOnlyExactSha ==
    /\ \A i \in 1..Len(cache) : RawCacheable(cache[i].value)
    /\ \A r \in InFlight : ~RawCacheable(req[r].params) => req[r].cacheOps = 0

\* A branch request runs its action on a fresh checkout while the store holds
\* an entry.
C1_Witness ==
    \E r \in Req : /\ req[r].pc = "action"
                   /\ req[r].params.readOnly
                   /\ ~IsExactSha(req[r].params.id.sha)
                   /\ Len(cache) > 0

\* C2: the action runs on an entry taken from the Cache Store only if the
\* entry's clone options equal the request's and fs.access of this call found
\* the entry's directory.
C2_HitOnlyIfValid ==
    \A r \in Req : Hit(r) =>
        /\ req[r].project # NoEntry
        /\ req[r].dir = req[r].project.baseDir
        /\ req[r].project.cloneOptions = req[r].params.cloneOptions
        /\ req[r].accessed = "found"

\* A call is served from the store.
C2_Witness == \E r \in Req : Hit(r) /\ req[r].accessed = "found"

\* C3: a read-only request for an exact commit hash that is issued after a
\* call with the same repository, hash and clone options has run its action
\* does not invoke the Materializer and its action gets the same path.
C3_SecondCallReuses ==
    \A r \in Req :
        ( /\ req[r].pc = "action"
          /\ returned.req = r - 1
          /\ returned.outcome \in {"result", "actionError"}
          /\ RawCacheable(req[r].params)
          /\ returned.params = req[r].params )
        => ~req[r].fresh /\ req[r].dir = returned.dir

\* The second of two equal calls runs its action.
C3_Witness ==
    \E r \in Req : /\ req[r].pc = "action"
                   /\ returned.req = r - 1
                   /\ returned.outcome = "result"
                   /\ returned.params = req[r].params
                   /\ req[r].dir = returned.dir

\* C4: the entry a call is served from the Cache Store was stored for the
\* repository and the commit hash of the call.
C4_HitSameRepoAndSha ==
    \A r \in Req : Hit(r) => req[r].project.id = req[r].params.id

\* A call is served while the store also holds an entry for the same hash in
\* another repository.
C4_Witness ==
    \E r \in Req : /\ Hit(r)
                   /\ \E i \in 1..Len(cache) :
                        /\ cache[i].value.id.sha = req[r].params.id.sha
                        /\ cache[i].value.id.repo # req[r].params.id.repo

\* C5: no two cleanUp runs for the same directory have both passed the
\* existence check and reached fs.remove.
C5_OneRemovalPerDirectory ==
    \A d \in Dir : Cardinality({reason \in Reasons : clean[d][reason] = "remove"}) <= 1

\* C6: once the shutdown hook has completed, every checkout that was on
\* storage when the hook started has been removed (those aside whose call is
\* still running, whose disposal the owner of the lifecycle handle has not
\* invoked, or on which an fs.remove failed).
C6_AllDestroyedAtShutdown ==
    shutdown = "done" =>
        \A d \in atShutdown :
            (req[d].pc = "done" /\ removals[d] = {} /\ d \notin disposables)
            => ~Present(d)

\* C7: every checkout directory on storage is in the Cache Store, or has a
\* registered disposal, a pending timer or a deleteOnExit entry, or has a
\* cleanUp in progress (directories on which an fs.remove failed aside).
C7_NoOrphan ==
    \A d \in Dir : (Present(d) /\ removals[d] = {}) =>
        \/ d \in CacheDirs(cache)
        \/ d \in disposables
        \/ d \in timers
        \/ d \in OnExit
        \/ Pending(d) # {}

CacheOwned(d) == d \in CacheDirs(cache) \/ clean[d]["eviction"] # "none"
LifecycleOwned(d) ==
    \/ d \in disposables
    \/ d \in timers
    \/ d \in OnExit
    \/ \E reason \in Reasons \ {"eviction"} : clean[d][reason] # "none"

\* C8: no checkout is both the Cache Store's (in the store, or evicted from
\* it) and the Lifecycle Coordinator's (a disposal, a timer, a deleteOnExit
\* entry, or a cleanUp by disposal, timeout or shutdown), and no entry of the
\* store comes from a request that is not read-only or not for an exact hash.
C8_NeverOwnedByBoth ==
    /\ \A d \in Dir : ~(CacheOwned(d) /\ LifecycleOwned(d))
    /\ \A i \in 1..Len(cache) :
          /\ cache[i].value.readOnly
          /\ IsExactSha(cache[i].value.id.sha)
          /\ ~LifecycleOwned(cache[i].value.baseDir)

\* The store holds a checkout while another is registered with the coordinator.
C8_Witness ==
    \E d1, d2 \in Dir : /\ d1 \in CacheDirs(cache)
                        /\ Present(d1)
                        /\ d2 \in timers \cup disposables
                        /\ Present(d2)

\* C9: a step of this program that calls fs.remove on a directory is not
\* taken while an entry of the Cache Store has that directory, and for a
\* checkout of the store it is the step of the cleanUp started by its eviction.
C9_CachedRemovedOnlyByEviction ==
    [][\A d \in Dir : removals'[d] # removals[d] =>
            /\ d \notin CacheDirs(cache)
            /\ CacheOwned(d) => removals'[d] \ removals[d] = {"eviction"}]_vars

\* An evicted checkout has been removed while the store holds another entry.
C9_Witness ==
    \E d \in Dir : /\ removals[d] = {"eviction"}
                   /\ disk[d] = "removed"
                   /\ \E e \in CacheDirs(cache) : Present(e)

\* C10: when the action is invoked its directory exists on storage (unless
\* something other than this program removed it).
C10_DirectoryExistsAtInvocation ==
    \A r \in Req : req[r].pc = "action" =>
        req[r].sawDir \/ disk[req[r].dir] = "lost"

\* The call r found an entry under its key and the entry was not valid.
Refetching(r) == req[r].pc = "save" /\ req[r].cacheOps = 2

\* C11: a read-only exact-hash call that finds an entry under its key whose
\* clone options differ or whose directory fs.access does not find takes the
\* invalid branch; leaving it, the key is out of the store and the cleanUp of
\* the entry it saw has started; the call then materializes once and, unless
\* the Materializer fails, puts the fresh checkout with its own clone options
\* under the key and runs the action on it.
C11_InvalidEntryRefetched ==
    [][\A r \in Req :
         LET p == req[r].params
             key == KeyOf(p)
         IN /\ ( /\ req[r].pc = "checked"
                 /\ \/ req[r].accessed = "missing"
                    \/ req[r].project.cloneOptions # p.cloneOptions )
               => ~req[r].valid
            /\ (req[r].pc = "checked" /\ ~req[r].valid /\ req'[r] # req[r])
               => /\ req'[r].pc = "save"
                  /\ ~LruHas(cache', key)
                  /\ LruValue(cache, key) = req[r].project
                        => clean'[req[r].project.baseDir]["eviction"] = "exists"
            /\ (Refetching(r) /\ req'[r] # req[r])
               => \/ req'[r].pc = "done" /\ returned'.outcome = "saveError"
                  \/ /\ req'[r].pc = "action"
                     /\ req'[r].fresh
                     /\ req'[r].dir = r
                     /\ disk'[r] = "present"
                     /\ LruValue(cache', key) = CacheEntryOf(r, p)
            /\ (req[r].pc = "action" /\ req'[r] # req[r])
               => req'[r].pc = "done" /\ returned'.outcome \in {"result", "actionError"}
      ]_vars

\* A call runs its action on a fresh checkout after it evicted an entry whose
\* directory had been removed from outside.
C11_Witness ==
    \E r \in Req, d \in Dir :
        /\ req[r].pc = "action"
        /\ req[r].cacheOps = 3
        /\ req[r].fresh
        /\ disk[d] = "lost"
        /\ clean[d]["eviction"] # "none"
        /\ LruValue(cache, KeyOf(req[r].params)) = CacheEntryOf(r, req[r].params)

Outcomes == {"none", "result", "saveError", "actionError"}

\* C12: the Cache Store holds at most maxEntries entries, one per key, also
\* when calls for more than maxEntries keys overlap and their eviction
\* callbacks are in progress; a call that has put its checkout goes on to its
\* action, and a call ends with a result, the Materializer's error or the
\* action's error only.
C12_AtMostMaxEntries ==
    /\ Len(cache) <= maxEntries
    /\ \A i, j \in 1..Len(cache) : cache[i].key = cache[j].key => i = j
    /\ \A r \in Req : (req[r].cacheable /\ req[r].fresh) => req[r].pc = "action"
    /\ returned.outcome \in Outcomes

\* Two overlapping calls for different keys have both put their checkout into
\* a full store and an eviction callback is in progress.
C12_Witness ==
    \E r1, r2 \in Req :
        /\ r1 # r2
        /\ req[r1].pc = "action" /\ req[r1].fresh
        /\ req[r2].pc = "action" /\ req[r2].fresh
        /\ KeyOf(req[r1].params) # KeyOf(req[r2].params)
        /\ Len(cache) = maxEntries
        /\ \E d \in Dir : clean[d]["eviction"] \in {"exists", "remove"}

StoreKeys(c) == {c[i].key : i \in 1..Len(c)}
IsPut(r) == req[r].pc = "save" /\ req[r].cacheable /\ req'[r].pc = "action"

\* C13: a put evicts an entry of another key only when the store is full and
\* the key is new, the entry it evicts is the one whose last get or put is the
\* oldest, and the cleanUp of that entry's directory starts with the put;
\* lastUse lists the keys of the store, and a cleanUp by eviction that has
\* ended leaves the directory off the storage unless its fs.remove failed.
C13_EvictsLeastRecentlyUsed ==
    /\ [][\A r \in Req : IsPut(r) =>
            \A k \in StoreKeys(cache) \ StoreKeys(cache') :
                /\ Len(cache) = maxEntries
                /\ KeyOf(req[r].params) \notin StoreKeys(cache)
                /\ k = Head(lastUse)
                /\ StoreKeys(cache) \ StoreKeys(cache') = {k}
                /\ clean'[LruValue(cache, k).baseDir]["eviction"] = "exists"]_vars
    /\ [](StoreKeys(cache) = {lastUse[i] : i \in 1..Len(lastUse)})
    /\ [](\A d \in Dir : clean[d]["eviction"] = "done" =>
                ~Present(d) \/ "eviction" \in removals[d])

\* maxEntries + 1 calls for different keys, one after the other and none
\* served from the store: the entry of the first is evicted and its
\* directory is off the storage.
C13_Witness ==
    /\ \A d \in 1..(maxEntries + 1) : disk[d] # "none"
    /\ Len(cache) = maxEntries
    /\ disk[1] = "removed"
    /\ removals[1] = {"eviction"}
    /\ CacheDirs(cache) = 2..(maxEntries + 1)
    /\ Cardinality(StoreKeys(cache)) = maxEntries

\* C14: the step in which the Materializer fails ends the call with that
\* error: no action and no further save() of the call follow, and the step
\* leaves the store, the disposals, the timers, deleteOnExit, the storage and
\* the cleanUp runs as they were.
C14_MaterializerFailureEndsCall ==
    [][\A r \in Req :
         (req[r].pc = "save" /\ returned' # returned /\ returned'.req = r) =>
            /\ returned'.outcome = "saveError"
            /\ returned'.dir = 0
            /\ returned'.params = req[r].params
            /\ req'[r].pc = "done"
            /\ UNCHANGED <<cache, lastUse, disposables, timers, deleteOnExit,
                           disk, clean>>
      ]_vars

\* The Materializer has failed for a call that is not read-only and has no
\* lifecycle handle, while the store holds an entry.
C14_Witness ==
    /\ returned.outcome = "saveError"
    /\ ~returned.params.readOnly
    /\ ~returned.params.lifecycle
    /\ req[returned.req].pc = "done"
    /\ returned.req \notin timers \cup OnExit
    /\ Len(cache) > 0

\* C15: a call ends with an error only in the step in which its save() fails
\* or in the step in which its action fails; an fs.access that does not find
\* the directory makes the entry invalid and the call goes on; a cleanUp
\* calls fs.remove once, ends whether fs.remove failed or not, does not start
\* again, and its step changes no call and no call's outcome.
C15_OnlyMaterializerAndActionErrors ==
    [][/\ \A r \in Req :
            /\ (returned' # returned /\ returned'.req = r) =>
                  \/ req[r].pc = "save" /\ returned'.outcome = "saveError"
                  \/ req[r].pc = "action"
                        /\ returned'.outcome \in {"result", "actionError"}
            /\ (req[r].pc = "access" /\ req'[r] # req[r]) =>
                  /\ req'[r].pc = "checked"
                  /\ req'[r].accessed = "missing" => ~req'[r].valid
                  /\ returned' = returned
            /\ (req[r].pc = "checked" /\ req[r].accessed = "missing"
                                      /\ req'[r] # req[r]) =>
                  req'[r].pc = "save" /\ returned' = returned
       /\ \A d \in Dir, x \in Reasons :
            /\ clean[d][x] = "remove" /\ clean'[d][x] # "remove" =>
                  /\ clean'[d][x] = "done"
                  /\ x \in removals'[d]
            /\ x \in removals'[d] /\ x \notin removals[d] =>
                  /\ clean[d][x] = "remove"
                  /\ clean'[d][x] = "done"
                  /\ req' = req
                  /\ returned' = returned
            /\ clean[d][x] = "done" => clean'[d][x] = "done"
      ]_vars

\* An fs.remove has failed and left its directory on the storage; a call has
\* returned a result and another runs its action after evicting an invalid
\* entry.
C15_Witness ==
    \E d \in Dir, r \in Req :
        /\ Present(d)
        /\ removals[d] # {}
        /\ Pending(d) = {}
        /\ returned.outcome = "result"
        /\ req[r].pc = "action"
        /\ req[r].cacheOps = 3

Bypass(r) == r \in InFlight /\ ~RawCacheable(req[r].params)

\* C16: a call that is not read-only, or whose revision is not an exact
\* commit hash, awaits one save() and runs its action on the checkout of that
\* save(): it makes no use of the store, its directory is no entry's and no
\* other call's, whatever the store holds.
C16_BypassAlwaysFresh ==
    \A r \in Req : Bypass(r) =>
        /\ req[r].pc \in {"save", "action"}
        /\ req[r].cacheOps = 0
        /\ req[r].project = NoEntry
        /\ req[r].pc = "save" => disk[r] = "none" /\ req[r].dir = 0
        /\ req[r].pc = "action" =>
              /\ req[r].fresh
              /\ req[r].dir = r
              /\ disk[r] # "none"
              /\ r \notin CacheDirs(cache)
              /\ \A q \in Req \ {r} : req[q].dir # r

\* A call that is not read-only runs its action on a checkout of its own
\* while the store holds a checkout of the same repository and commit hash
\* that is on the storage.
C16_Witness ==
    \E r \in Req, i \in 1..Len(cache) :
        /\ req[r].pc = "action"
        /\ ~req[r].params.readOnly
        /\ cache[i].value.id = req[r].params.id
        /\ cache[i].value.cloneOptions = req[r].params.cloneOptions
        /\ Present(cache[i].value.baseDir)
        /\ req[r].dir # cache[i].value.baseDir
        /\ Present(req[r].dir)

BypassSave(r) == req[r].pc = "save" /\ ~req[r].cacheable /\ req'[r].pc = "action"
FailedRemoval(d) == Present(d) /\ removals[d] # {}

C18_ShutdownReclaimsEveryListedPath ==
    shutdown = "done" => \A d \in OnExit : ~Present(d) \/ FailedRemoval(d)

\* C19: a path whose directory a cleanUp has removed is not in deleteOnExit,
\* and the shutdown hook starts no cleanUp for a path that a cleanUp has
\* already removed.
C19_ReclaimedPathLeavesList ==
    \A d \in Dir :
        disk[d] = "removed" =>
            /\ d \notin OnExit
            /\ clean[d]["shutdown"] # "none" => "shutdown" \in removals[d]

\* C20: the step that materializes the checkout of a call off the cacheable
\* path that has a lifecycle handle registers one disposal for it, schedules
\* no timer and leaves deleteOnExit as it is; while the disposal is not
\* invoked the directory is on the storage and no cleanUp of it has started;
\* invoking the disposal starts its cleanUp, the only one the directory gets,
\* which ends with the directory off the storage unless fs.remove failed.
C20_LifecycleDisposal ==
    /\ [][\A r \in Req : (BypassSave(r) /\ req[r].params.lifecycle) =>
              /\ r \notin disposables
              /\ disposables' = disposables \cup {r}
              /\ timers' = timers
              /\ deleteOnExit' = deleteOnExit
              /\ clean' = clean]_vars
    /\ [][\A d \in disposables \ disposables' :
              clean'[d]["disposal"] = "exists"]_vars
    /\ [](\A d \in disposables :
              /\ Present(d)
              /\ removals[d] = {}
              /\ \A x \in Reasons : clean[d][x] = "none"
              /\ d \notin timers \cup OnExit \cup CacheDirs(cache))
    /\ [](\A d \in Dir : clean[d]["disposal"] # "none" =>
              /\ \A x \in Reasons \ {"disposal"} : clean[d][x] = "none"
              /\ d \notin timers \cup OnExit \cup CacheDirs(cache)
              /\ removals[d] \subseteq {"disposal"}
              /\ clean[d]["disposal"] = "done" =>
                    ~Present(d) \/ "disposal" \in removals[d])

\* A disposal has been invoked and has removed its directory, while the
\* disposal of another checkout is registered and not invoked.
C20_Witness ==
    \E d, e \in Dir :
        /\ clean[d]["disposal"] = "done"
        /\ disk[d] = "removed"
        /\ removals[d] = {"disposal"}
        /\ e \in disposables
        /\ Present(e)

\* C21: a call on the cacheable path comes to its action either from the
\* validity check, which has accepted the entry the action gets, or from its
\* own save(), whose checkout the action gets; a call whose check rejected
\* the entry goes to save() and its action does not get the rejected entry.
C21_ValidatedOrFreshBeforeAction ==
    [][\A r \in Req :
         /\ (req'[r].cacheable /\ req'[r].pc = "action" /\ req[r].pc # "action") =>
               \/ /\ req[r].pc = "checked"
                  /\ req[r].valid
                  /\ req[r].accessed = "found"
                  /\ req[r].project.cloneOptions = req[r].params.cloneOptions
                  /\ ~req'[r].fresh
                  /\ req'[r].dir = req[r].project.baseDir
               \/ /\ req[r].pc = "save"
                  /\ disk[r] = "none"
                  /\ disk'[r] = "present"
                  /\ req'[r].fresh
                  /\ req'[r].dir = r
         /\ (req[r].pc = "checked" /\ ~req[r].valid /\ req'[r] # req[r]) =>
               /\ req'[r].pc = "save"
               /\ req[r].project.baseDir # r
      ]_vars

\* One call runs its action on an entry its check accepted while another
\* runs its action on a fresh checkout after its check rejected an entry.
C21_Witness ==
    \E r, q \in Req :
        /\ Hit(r) /\ req[r].valid
        /\ req[q].pc = "action" /\ req[q].fresh /\ req[q].cacheOps = 3
        /\ ~req[q].valid

\* C22: a call whose save() does not fail goes on to its action; the action
\* keeps its one checkout; the step that ends the action ends the call with
\* the action's result or error for that checkout and leaves the store, the
\* storage and the reclamation state as they were; a call that has ended
\* invokes nothing more.
C22_ActionExactlyOnce ==
    [][\A r \in Req :
         /\ (req[r].pc = "save" /\ req'[r] # req[r]) =>
               \/ req'[r].pc = "action" /\ req'[r].dir = r
               \/ req'[r].pc = "done" /\ returned'.outcome = "saveError"
                                      /\ returned'.req = r
         /\ (req[r].pc = "action" /\ req'[r] # req[r]) =>
               /\ req'[r].pc = "done"
               /\ returned'.req = r
               /\ returned'.outcome \in {"result", "actionError"}
               /\ returned'.dir = req[r].dir
               /\ returned'.params = req[r].params
               /\ UNCHANGED <<cache, disk, clean, timers, disposables,
                              deleteOnExit, removals>>
         /\ req[r].pc = "done" => req'[r] = req[r]
         /\ req'[r].pc = "action" => req'[r].dir \in Dir
      ]_vars

\* The action of a call on the cacheable path has ended with an error; its
\* entry is in the store and its directory is on the storage.
C22_Witness ==
    /\ returned.outcome = "actionError"
    /\ RawCacheable(returned.params)
    /\ LruValue(cache, KeyOf(returned.params)).baseDir = returned.dir
    /\ Present(returned.dir)
    /\ req[returned.req].pc = "done"

\* C23: when a call whose validity check rejected the entry it read evicts
\* its key, the store holds under that key the entry the call read, or none:
\* the eviction does not take an entry that another call has put under the
\* key since this call's get.
C23_EvictsOnlyEntryRead ==
    [][\A r \in Req :
         (req[r].pc = "checked" /\ ~req[r].valid /\ req'[r] # req[r]) =>
            LruValue(cache, KeyOf(req[r].params)) \in {NoEntry, req[r].project}
      ]_vars

\* C24: while the action of a call off the cacheable path is running, the
\* cleanUp started by the timer of its checkout has not called fs.remove on
\* the checkout's directory.
C24_TimeoutAfterAction ==
    \A r \in Req :
        (req[r].pc = "action" /\ ~req[r].cacheable) =>
            "timeout" \notin removals[req[r].dir]

\* C25: a cleanUp whose fs.pathExists does not find the path ends there: it
\* calls no fs.remove and changes neither the storage, nor deleteOnExit, nor
\* any call or its outcome; fs.remove is called only by a cleanUp whose
\* check found the path; and cleanUp does not proceed on an empty path.  So
\* a cleanUp that follows one that removed the path changes nothing.
C25_CleanUpIdempotent ==
    /\ [][\A d \in Dir, x \in Reasons :
             /\ (clean[d][x] = "exists" /\ ~Present(d) /\ clean'[d][x] # "exists") =>
                   /\ clean'[d][x] = "done"
                   /\ UNCHANGED <<disk, deleteOnExit, removals, req, returned,
                                  cache>>
             /\ (x \in removals'[d] /\ x \notin removals[d]) =>
                   clean[d][x] = "remove"
             /\ (clean[d][x] # "remove" /\ clean'[d][x] = "remove") =>
                   clean[d][x] = "exists" /\ Present(d)
       ]_vars
    /\ [](\A e \in BOOLEAN : ~CleanUpProceeds(0, e))

\* The timer's cleanUp has removed a directory and the shutdown hook's
\* cleanUp of the same path has ended without calling fs.remove.
C25_Witness ==
    \E d \in Dir : /\ disk[d] = "removed"
                   /\ removals[d] = {"timeout"}
                   /\ clean[d]["timeout"] = "done"
                   /\ clean[d]["shutdown"] = "done"
                   /\ d \in OnExit

====
